---- MODULE Spec2Model ----
(***************************************************************************)
(* Node registry of panel/app/routers/nodes.py: the four endpoints         *)
(* create_node (register), list_nodes, get_node and delete_node over the   *)
(* table of Node rows.  Requests do not overlap in Spec: every action is   *)
(* one whole handler, from its first select to its commit and response.    *)
(***************************************************************************)
EXTENDS Integers, FiniteSets, TLC

\* ---------------------------------------------------------------- bounds
MaxTime == 1        \* the clock reads 0..MaxTime
MaxIds  == 2        \* at most MaxIds rows are ever inserted
MaxRequests == 3    \* at most MaxRequests overlapping requests are started

\* ------------------------------------------------------------ input sets
Names        == {"n1", "n1-renamed"}
Fingerprints == {"fp1", "fp2"}
Keys         == {"zone", "rack"}
Vals         == {"a", "5"}
NodeIds      == 1..MaxIds

\* A metadata mapping: a function from some of the keys to values.
Dicts == UNION {[D -> Vals] : D \in SUBSET Keys}
EmptyDict == [k \in {} |-> "a"]
\* SQL NULL / Python None in the JSON column.
Null == [null |-> "null"]
\* The metadata a request may carry (an omitted one is the empty mapping).
Metadatas == {EmptyDict, [zone |-> "a"], [zone |-> "5"], [rack |-> "5"]}

VARIABLES
    nodes,      \* the rows of the Node table
    now,        \* the reading of datetime.utcnow()
    nextId,     \* the number of identifiers generated so far
    req,        \* the request handled last
    resp,       \* the response to it
    deleted,    \* history: ids whose delete was acknowledged
    fresh,      \* history: only registrations of distinct fingerprints so far
    returned,   \* history: the records those registrations returned
    tomb,       \* history: what deleted records held, until registered again
    unique,     \* whether the table's schema rejects a duplicate fingerprint
    pc,         \* overlapping requests: where each register request stands
    sess,       \* overlapping requests: what each request's session holds
    lastCommit, \* history: the overlapping request that committed last
    started     \* history: the number of overlapping requests started

\* The state of the overlapping register requests.
conc == <<unique, pc, sess, lastCommit, started>>

vars ==
    <<nodes, now, nextId, req, resp, deleted, fresh, returned, tomb, conc>>

\* ------------------------------------------------------- Python helpers
\* bool(d) of a dict or None.
Truthy(d) == d # Null /\ d # EmptyDict

\* `d or {}`.
OrEmptyDict(d) == IF Truthy(d) THEN d ELSE EmptyDict

\* dict.update gone wrong: the mapping is replaced instead of merged.
DictUpdate_replace(m, m2) == m2

\* dict.update: the keys of m2 take m2's values, the other keys of m stay.
DictUpdate(m, m2) ==
    [k \in (DOMAIN m) \cup (DOMAIN m2) |-> IF k \in DOMAIN m2 THEN m2[k] ELSE m[k]]

\* ------------------------------------------------------------- requests
\* Records list their fields in one fixed order throughout the module.
NodeCreate(name, fingerprint, metadata) ==
    [name |-> name, fingerprint |-> fingerprint, metadata |-> metadata,
     op |-> "create_node", node_id |-> 0]

NoBody(op, node_id) ==
    [name |-> "", fingerprint |-> "", metadata |-> EmptyDict, op |-> op,
     node_id |-> node_id]

\* ------------------------------------------------------------ responses
\* NodeResponse(...) built without the row's node_metadata.
NodeResponse_noMetadata(n) ==
    [name |-> n.name, fingerprint |-> n.fingerprint, metadata |-> EmptyDict,
     id |-> n.id, status |-> n.status, registered_at |-> n.registered_at,
     last_seen |-> n.last_seen]

\* NodeResponse(...) as list_nodes and get_node build it.
NodeResponse(n) ==
    [name |-> n.name, fingerprint |-> n.fingerprint,
     metadata |-> OrEmptyDict(n.node_metadata), id |-> n.id,
     status |-> n.status, registered_at |-> n.registered_at,
     last_seen |-> n.last_seen]

\* The response model applied to a returned Node row (from_attributes):
\* metadata is the row's node_metadata as stored.
FromAttributes(n) ==
    [name |-> n.name, fingerprint |-> n.fingerprint,
     metadata |-> n.node_metadata, id |-> n.id, status |-> n.status,
     registered_at |-> n.registered_at, last_seen |-> n.last_seen]

Ok(op, body) ==
    [op |-> op, body |-> body, code |-> 200, payload |-> EmptyDict]

Deleted ==
    [op |-> "delete_node", body |-> {}, code |-> 200,
     payload |-> [status |-> "deleted"]]

\* HTTPException(status_code=404, detail="Node not found")
NotFound(op) ==
    [op |-> op, body |-> {}, code |-> 404,
     payload |-> [detail |-> "Node not found"]]

\* ---------------------------------------------------------------- store
\* The lookup compares the wrong column.
ByFingerprint_byName(fp) == {n \in nodes : n.name = fp}

\* select(Node).where(Node.fingerprint == fp)
ByFingerprint(fp) == {n \in nodes : n.fingerprint = fp}

\* The lookup without its where clause.
ById_noWhere(id) == nodes

\* select(Node).where(Node.id == id)
ById(id) == {n \in nodes : n.id = id}

\* The re-registration path also taking the request's name.
UpdateExisting_rename(existing, node) ==
    [existing EXCEPT
        !.name = node.name,
        !.last_seen = now,
        !.status = "active",
        !.node_metadata = IF Truthy(node.metadata)
                          THEN DictUpdate(@, node.metadata)
                          ELSE @]

\* The re-registration path also restamping registered_at.
UpdateExisting_restamp(existing, node) ==
    [existing EXCEPT
        !.registered_at = now,
        !.last_seen = now,
        !.status = "active",
        !.node_metadata = IF Truthy(node.metadata)
                          THEN DictUpdate(@, node.metadata)
                          ELSE @]

\* The re-registration path: the row after lines 45-50.  The update of the
\* metadata mapping in place is written back by the commit.
UpdateExisting(existing, node) ==
    [existing EXCEPT
        !.last_seen = now,
        !.status = "active",
        !.node_metadata = IF Truthy(node.metadata)
                          THEN DictUpdate(@, node.metadata)
                          ELSE @]

\* The columns the Node table fills in on insert: a freshly generated
\* identifier, and registered_at = last_seen = the time of the insert.
ColumnDefaults ==
    [id |-> nextId + 1, registered_at |-> now, last_seen |-> now]

\* The creation path dropping the request's metadata.
NewNode_noMetadata(node) ==
    [name |-> node.name, fingerprint |-> node.fingerprint,
     id |-> ColumnDefaults.id, status |-> "active",
     registered_at |-> ColumnDefaults.registered_at,
     last_seen |-> ColumnDefaults.last_seen, node_metadata |-> EmptyDict]

\* The creation path storing NULL for an empty mapping.
NewNode_nullMetadata(node) ==
    [name |-> node.name, fingerprint |-> node.fingerprint,
     id |-> ColumnDefaults.id, status |-> "active",
     registered_at |-> ColumnDefaults.registered_at,
     last_seen |-> ColumnDefaults.last_seen,
     node_metadata |-> IF Truthy(node.metadata) THEN node.metadata ELSE Null]

\* The creation path leaving the new row in another status.
NewNode_pending(node) ==
    [name |-> node.name, fingerprint |-> node.fingerprint,
     id |-> ColumnDefaults.id, status |-> "pending",
     registered_at |-> ColumnDefaults.registered_at,
     last_seen |-> ColumnDefaults.last_seen,
     node_metadata |-> OrEmptyDict(node.metadata)]

\* The creation path: the row Node(...) of lines 54-59 once inserted.
NewNode(node) ==
    [name |-> node.name, fingerprint |-> node.fingerprint,
     id |-> ColumnDefaults.id, status |-> "active",
     registered_at |-> ColumnDefaults.registered_at,
     last_seen |-> ColumnDefaults.last_seen,
     node_metadata |-> OrEmptyDict(node.metadata)]

\* The delete that never reaches the table.
Remove_noop(node) == nodes

\* The delete without its where clause.
Remove_all(node) == {}

\* The delete that only marks the row.
Remove_soft(node) == (nodes \ {node}) \cup {[node EXCEPT !.status = "deleted"]}

\* db.delete(node) and the commit: the table without the row.
Remove(node) == nodes \ {node}

\* The request slots that may overlap.
Procs == {1, 2}

\* The session of a slot that serves no request.
NoSession ==
    [node |-> NoBody("none", 0), seen |-> {}, local |-> {}, out |-> {}]

\* ----------------------------------------------------------------- Init
Init ==
    /\ nodes = {}
    /\ now = 0
    /\ nextId = 0
    /\ req = NoBody("none", 0)
    /\ resp = Ok("none", {})
    /\ deleted = {}
    /\ fresh = TRUE
    /\ returned = {}
    /\ tomb = {}
    /\ unique = TRUE
    /\ pc = [p \in Procs |-> "idle"]
    /\ sess = [p \in Procs |-> NoSession]
    /\ lastCommit = 0
    /\ started = 0

\* -------------------------------------------------------------- actions
\* What the history keeps of a deleted row.
Gone(n) ==
    [name |-> n.name, fingerprint |-> n.fingerprint,
     node_metadata |-> n.node_metadata]

\* The history once fingerprint fp is registered again.
Forget(fp) == {t \in tomb : t.fingerprint # fp}

\* The wall clock advances between requests.
Tick ==
    /\ now < MaxTime
    /\ now' = now + 1
    /\ UNCHANGED <<nodes, nextId, req, resp, deleted, fresh, returned, tomb>>
    /\ UNCHANGED conc

\* POST "": the row with the fingerprint is updated and returned.
create_node_existing(node) ==
    /\ ByFingerprint(node.fingerprint) # {}
    /\ \E existing \in ByFingerprint(node.fingerprint) :
          LET updated == UpdateExisting(existing, node) IN
          /\ nodes' = (nodes \ {existing}) \cup {updated}
          /\ resp' = Ok("create_node", {FromAttributes(updated)})
    /\ req' = node
    /\ fresh' = FALSE
    /\ returned' = {}
    /\ tomb' = Forget(node.fingerprint)
    /\ UNCHANGED <<now, nextId, deleted, conc>>

\* POST "": no row has the fingerprint, a row is inserted and returned.
create_node_new(node) ==
    /\ ByFingerprint(node.fingerprint) = {}
    /\ nextId < MaxIds
    /\ LET db_node == NewNode(node) IN
          /\ nodes' = nodes \cup {db_node}
          /\ resp' = Ok("create_node", {FromAttributes(db_node)})
          /\ returned' = IF fresh THEN returned \cup {FromAttributes(db_node)}
                         ELSE {}
    /\ nextId' = nextId + 1
    /\ req' = node
    /\ tomb' = Forget(node.fingerprint)
    /\ UNCHANGED <<now, deleted, fresh, conc>>

create_node ==
    \E name \in Names, fingerprint \in Fingerprints, metadata \in Metadatas :
        \/ create_node_existing(NodeCreate(name, fingerprint, metadata))
        \/ create_node_new(NodeCreate(name, fingerprint, metadata))

\* GET "" that also stamps every row it reads.
list_nodes_touching ==
    /\ req' = NoBody("list_nodes", 0)
    /\ resp' = Ok("list_nodes", {NodeResponse(n) : n \in nodes})
    /\ nodes' = {[n EXCEPT !.last_seen = now] : n \in nodes}
    /\ UNCHANGED <<now, nextId, deleted, fresh, returned, tomb, conc>>

\* GET "": every row as a NodeResponse.
list_nodes ==
    /\ req' = NoBody("list_nodes", 0)
    /\ resp' = Ok("list_nodes", {NodeResponse(n) : n \in nodes})
    /\ UNCHANGED <<nodes, now, nextId, deleted, fresh, returned, tomb, conc>>

\* GET "/{node_id}"
get_node ==
    \E node_id \in NodeIds :
        /\ req' = NoBody("get_node", node_id)
        /\ IF ById(node_id) = {}
           THEN resp' = NotFound("get_node")
           ELSE \E node \in ById(node_id) :
                   resp' = Ok("get_node", {NodeResponse(node)})
        /\ UNCHANGED <<nodes, now, nextId, deleted, fresh, returned, tomb, conc>>

\* DELETE "/{node_id}"
delete_node ==
    \E node_id \in NodeIds :
        /\ req' = NoBody("delete_node", node_id)
        /\ IF ById(node_id) = {}
           THEN /\ resp' = NotFound("delete_node")
                /\ UNCHANGED <<nodes, deleted, fresh, returned, tomb>>
           ELSE \E node \in ById(node_id) :
                   /\ nodes' = Remove(node)
                   /\ resp' = Deleted
                   /\ deleted' = deleted \cup {node_id}
                   /\ fresh' = FALSE
                   /\ returned' = {}
                   /\ tomb' = tomb \cup {Gone(node)}
        /\ UNCHANGED <<now, nextId, conc>>

Next ==
    \/ Tick
    \/ create_node
    \/ list_nodes
    \/ get_node
    \/ delete_node

Spec == Init /\ [][Next]_vars

\* ------------------------------------------- overlapping register requests
\* create_node suspends at its awaits: the select of line 40 and the commit
\* of line 49 or 61.  Between the two another request may run.

\* What the sequential history variables are to the overlapping requests.
seq == <<req, resp, deleted, fresh, returned, tomb>>

\* The session once the select has returned.
Session(node, seen, local) ==
    [node |-> node, seen |-> seen, local |-> local, out |-> {}]

\* The requests that took the creation path and have not committed yet.
PendingInserts == {q \in Procs : pc[q] = "insert"}

\* The names the overlapping requests carry.
OverlapNames == {"n1"}

\* Lines 40-48: the select by fingerprint, and on the update path the
\* changes made to the loaded row, in the session only.  More than one
\* matching row makes scalar_one_or_none raise.
Select(p) ==
    /\ pc[p] = "idle"
    /\ started < MaxRequests
    /\ started' = started + 1
    /\ \E name \in OverlapNames, fingerprint \in Fingerprints, metadata \in Metadatas :
          LET node == NodeCreate(name, fingerprint, metadata)
              found == ByFingerprint(fingerprint)
          IN  IF Cardinality(found) > 1
              THEN /\ pc' = [pc EXCEPT ![p] = "failed"]
                   /\ sess' = [sess EXCEPT ![p] = Session(node, {}, {})]
              ELSE IF found # {}
              THEN /\ pc' = [pc EXCEPT ![p] = "update"]
                   /\ sess' = [sess EXCEPT ![p] =
                         Session(node, found,
                                 {UpdateExisting(e, node) : e \in found})]
              ELSE /\ nextId + Cardinality(PendingInserts) < MaxIds
                   /\ pc' = [pc EXCEPT ![p] = "insert"]
                   /\ sess' = [sess EXCEPT ![p] = Session(node, {}, {})]
    /\ UNCHANGED <<nodes, now, nextId, unique, lastCommit, seq>>

\* The UPDATE that misses the change made to the mapping in place.
Flush_noMetadata(row, local, node) ==
    [row EXCEPT
        !.last_seen = local.last_seen,
        !.status = local.status]

\* The UPDATE the commit of line 49 issues for the loaded row: last_seen and
\* status as assigned, node_metadata only when it was touched (line 47).
Flush(row, local, node) ==
    [row EXCEPT
        !.last_seen = local.last_seen,
        !.status = local.status,
        !.node_metadata = IF Truthy(node.metadata)
                          THEN local.node_metadata
                          ELSE @]

\* Lines 49-51: commit, refresh and return on the update path.
CommitUpdate(p) ==
    /\ pc[p] = "update"
    /\ \E local \in sess[p].local : \E row \in ById(local.id) :
          LET written == Flush(row, local, sess[p].node) IN
          /\ nodes' = (nodes \ {row}) \cup {written}
          /\ sess' = [sess EXCEPT ![p].out = {FromAttributes(written)}]
    /\ pc' = [pc EXCEPT ![p] = "done"]
    /\ lastCommit' = p
    /\ UNCHANGED <<now, nextId, unique, started, seq>>

\* The insert replacing whatever row holds the fingerprint.
InsertRow_upsert(row) ==
    (nodes \ {n \in nodes : n.fingerprint = row.fingerprint}) \cup {row}

\* db.add(db_node) and the commit: the table with the new row.
InsertRow(row) == nodes \cup {row}

\* Lines 60-63: commit, refresh and return on the creation path, the table
\* taking the row.
CommitInsert(p) ==
    /\ pc[p] = "insert"
    /\ ~unique \/ ByFingerprint(sess[p].node.fingerprint) = {}
    /\ LET db_node == NewNode(sess[p].node) IN
          /\ nodes' = InsertRow(db_node)
          /\ sess' = [sess EXCEPT ![p].out = {FromAttributes(db_node)}]
    /\ nextId' = nextId + 1
    /\ pc' = [pc EXCEPT ![p] = "done"]
    /\ lastCommit' = p
    /\ UNCHANGED <<now, unique, started, seq>>

\* Line 61 when the schema holds fingerprints unique and the fingerprint was
\* inserted meanwhile: the commit raises and the request fails.
RejectInsert(p) ==
    /\ pc[p] = "insert"
    /\ unique
    /\ ByFingerprint(sess[p].node.fingerprint) # {}
    /\ pc' = [pc EXCEPT ![p] = "failed"]
    /\ UNCHANGED <<nodes, now, nextId, unique, sess, lastCommit, started, seq>>

\* The response leaves and the slot is free for the next request.
Respond(p) ==
    /\ pc[p] \in {"done", "failed"}
    /\ pc' = [pc EXCEPT ![p] = "idle"]
    /\ sess' = [sess EXCEPT ![p] = NoSession]
    /\ lastCommit' = 0
    /\ UNCHANGED <<nodes, now, nextId, unique, started, seq>>

\* The schema of the table is not part of this router: either it rejects a
\* duplicate fingerprint or it does not.
InitConc ==
    /\ nodes = {}
    /\ now = 0
    /\ nextId = 0
    /\ req = NoBody("none", 0)
    /\ resp = Ok("none", {})
    /\ deleted = {}
    /\ fresh = TRUE
    /\ returned = {}
    /\ tomb = {}
    /\ unique \in BOOLEAN
    /\ pc = [p \in Procs |-> "idle"]
    /\ sess = [p \in Procs |-> NoSession]
    /\ lastCommit = 0
    /\ started = 0

NextConc ==
    \/ Tick
    \/ \E p \in Procs : Select(p)
    \/ \E p \in Procs : CommitUpdate(p)
    \/ \E p \in Procs : CommitInsert(p)
    \/ \E p \in Procs : RejectInsert(p)
    \/ \E p \in Procs : Respond(p)

SpecConc == InitConc /\ [][NextConc]_vars

TypeOK ==
    /\ now \in 0..MaxTime
    /\ nextId \in 0..MaxIds
    /\ \A n \in nodes : n.id \in 1..nextId /\ n.node_metadata \in Dicts

\* ================================================================ claims
\* The rows of table S that carry fingerprint fp.
WithFingerprint(S, fp) == {n \in S : n.fingerprint = fp}

\* The rows of table S that carry identifier id.
WithId(S, id) == {n \in S : n.id = id}

\* r is the shallow merge of m with m2.
IsShallowMerge(r, m, m2) ==
    /\ DOMAIN r = (DOMAIN m) \cup (DOMAIN m2)
    /\ \A k \in DOMAIN m2 : r[k] = m2[k]
    /\ \A k \in (DOMAIN m) \ (DOMAIN m2) : r[k] = m[k]

\* This step serves a request to operation op: every handler records its
\* request, and the clock only moves between requests.
Serves(op) == now' = now /\ req'.op = op

\* This step is a register call whose fingerprint had a record before it.
ReRegisterStep ==
    Serves("create_node") /\ WithFingerprint(nodes, req'.fingerprint) # {}

\* This step is a register call whose fingerprint had no record before it.
FirstRegisterStep ==
    Serves("create_node") /\ WithFingerprint(nodes, req'.fingerprint) = {}

\* C1: a register call on a fingerprint whose record holds metadata M, with
\* supplied metadata M2, leaves that record's metadata the shallow merge of
\* M with M2 (M itself when M2 is empty), and returns a record carrying it.
C1_Step ==
    ReRegisterStep =>
        \A e \in WithFingerprint(nodes, req'.fingerprint) :
            /\ \E u \in WithId(nodes', e.id) :
                  IsShallowMerge(u.node_metadata, e.node_metadata, req'.metadata)
            /\ \A u \in WithId(nodes', e.id) :
                  IsShallowMerge(u.node_metadata, e.node_metadata, req'.metadata)
            /\ resp'.body # {}
            /\ \A r \in resp'.body :
                  IsShallowMerge(r.metadata, e.node_metadata, req'.metadata)
            /\ (req'.metadata = EmptyDict =>
                  \A u \in WithId(nodes', e.id) :
                      u.node_metadata = e.node_metadata)

C2_OnePerFingerprint ==
    \A n1 \in nodes : \A n2 \in nodes :
        n1.fingerprint = n2.fingerprint => n1 = n2

\* C2 witness: one fingerprint was registered twice and a second one once.
C2_Witness ==
    /\ resp.op = "create_node"
    /\ ~fresh
    /\ deleted = {}
    /\ Cardinality(nodes) = 2

\* C3: a register call on a fingerprint that has a record adds no record
\* and returns the existing record's id; id, name, fingerprint and
\* registered_at of the record stay what they were.
C3_Step ==
    ReRegisterStep =>
        /\ {n.id : n \in nodes'} = {n.id : n \in nodes}
        /\ Cardinality(nodes') = Cardinality(nodes)
        /\ \A e \in WithFingerprint(nodes, req'.fingerprint) :
              /\ resp'.body # {}
              /\ \A r \in resp'.body :
                    /\ r.id = e.id
                    /\ r.name = e.name
                    /\ r.fingerprint = e.fingerprint
                    /\ r.registered_at = e.registered_at
              /\ WithId(nodes', e.id) # {}
              /\ \A u \in WithId(nodes', e.id) :
                    /\ u.name = e.name
                    /\ u.fingerprint = e.fingerprint
                    /\ u.registered_at = e.registered_at

C4_Step ==
    FirstRegisterStep =>
        \E n \in nodes' :
            /\ n \notin nodes
            /\ nodes' = nodes \cup {n}
            /\ WithId(nodes, n.id) = {}
            /\ n.name = req'.name
            /\ n.fingerprint = req'.fingerprint
            /\ n.status = "active"
            /\ n.registered_at = n.last_seen
            /\ n.node_metadata = req'.metadata
            /\ resp'.code = 200
            /\ resp'.body =
                  {[name |-> n.name, fingerprint |-> n.fingerprint,
                    metadata |-> req'.metadata, id |-> n.id,
                    status |-> "active", registered_at |-> n.registered_at,
                    last_seen |-> n.last_seen]}

C5_Step ==
    ((Serves("get_node") \/ Serves("delete_node")) /\ WithId(nodes, req'.node_id) = {}) =>
        /\ resp'.code = 404
        /\ resp'.payload = [detail |-> "Node not found"]
        /\ resp'.body = {}
        /\ nodes' = nodes

C5_UnknownIdNotFound == [][C5_Step]_vars

\* C5 witness: a delete of an unknown id was refused while a record exists.
C5_Witness ==
    /\ resp.op = "delete_node"
    /\ resp.code = 404
    /\ nodes # {}

\* C6: once a delete of an id was acknowledged, no record has that id, so
\* a get of it answers 404 and no list result holds it.
C6_DeletedStaysGone ==
    /\ \A i \in deleted : WithId(nodes, i) = {}
    /\ (resp.op = "get_node" /\ req.node_id \in deleted) =>
          (resp.code = 404 /\ resp.body = {})
    /\ resp.op = "list_nodes" => \A r \in resp.body : r.id \notin deleted

\* C6 witness: a get of a deleted id was served while another record exists.
C6_Witness ==
    /\ resp.op = "get_node"
    /\ req.node_id \in deleted
    /\ nodes # {}

C8_Inv == \A n \in nodes : n.registered_at <= n.last_seen

C8_Step ==
    \A e \in nodes : \A u \in WithId(nodes', e.id) :
        /\ u.last_seen >= e.last_seen
        /\ u.registered_at = e.registered_at

C8_Timestamps == []C8_Inv /\ [][C8_Step]_vars

\* C8 witness: a re-registration at a later time moved last_seen only.
C8_Witness ==
    /\ resp.op = "create_node"
    /\ \E n \in nodes : n.registered_at < n.last_seen

C10_AlwaysActive ==
    /\ \A n \in nodes : n.status = "active"
    /\ resp.op = "create_node" => \A r \in resp.body : r.status = "active"

\* C10 witness: a node was registered, deleted and registered again.
C10_Witness ==
    /\ resp.op = "create_node"
    /\ deleted # {}
    /\ nodes # {}

\* Two overlapping requests that have both committed.
BothDone(p, q) == p # q /\ pc[p] = "done" /\ pc[q] = "done"

\* C11: when two register requests with the same fingerprint both found no
\* record at their lookup and both inserts were taken by the store, the
\* store holds two records with that fingerprint.
C11_DuplicateOnRace ==
    \A p \in Procs : \A q \in Procs :
        (/\ BothDone(p, q)
         /\ sess[p].seen = {} /\ sess[q].seen = {}
         /\ sess[p].node.fingerprint = sess[q].node.fingerprint) =>
            /\ Cardinality(WithFingerprint(nodes, sess[p].node.fingerprint)) = 2
            /\ \A r1 \in sess[p].out : \A r2 \in sess[q].out : r1.id # r2.id

\* C11 witness: both requests for "fp1" inserted, the schema not holding
\* fingerprints unique.
C11_Witness ==
    /\ ~unique
    /\ BothDone(1, 2)
    /\ sess[1].seen = {} /\ sess[2].seen = {}
    /\ sess[1].node.fingerprint = "fp1"
    /\ sess[2].node.fingerprint = "fp1"
    /\ Cardinality(WithFingerprint(nodes, "fp1")) = 2

\* C12: when two register requests for the same existing record have both
\* committed, every key both supplied holds the value of the request that
\* committed last.
C12_LastCommitWins ==
    \A p \in Procs : \A q \in Procs :
        (/\ BothDone(p, q)
         /\ lastCommit = p
         /\ sess[p].seen # {} /\ sess[q].seen # {}
         /\ sess[p].node.fingerprint = sess[q].node.fingerprint) =>
            \A e \in sess[p].seen : \A row \in WithId(nodes, e.id) :
                \A k \in (DOMAIN sess[p].node.metadata)
                            \cap (DOMAIN sess[q].node.metadata) :
                    /\ k \in DOMAIN row.node_metadata
                    /\ row.node_metadata[k] = sess[p].node.metadata[k]

\* C12 witness: both requests loaded the record holding {"rack": "5"}
\* before either committed, request 2 supplied {"zone": "5"}, request 1
\* supplied {"zone": "a"} and committed last.
C12_Witness ==
    /\ BothDone(1, 2)
    /\ lastCommit = 1
    /\ sess[1].seen # {}
    /\ sess[1].seen = sess[2].seen
    /\ \A e \in sess[1].seen : e.node_metadata = [rack |-> "5"]
    /\ sess[1].node.metadata = [zone |-> "a"]
    /\ sess[2].node.metadata = [zone |-> "5"]
    /\ \E row \in nodes : row.node_metadata = [zone |-> "a", rack |-> "5"]

\* C13: a register call changes no record of another fingerprint, and an
\* acknowledged delete removes the record with its id and nothing else.
C13_Step ==
    /\ Serves("create_node") =>
          /\ \A n \in nodes :
                n.fingerprint # req'.fingerprint => n \in nodes'
          /\ \A n \in nodes' :
                n.fingerprint # req'.fingerprint => n \in nodes
    /\ (Serves("delete_node") /\ resp'.code = 200) =>
          /\ Cardinality(WithId(nodes, req'.node_id)) = 1
          /\ nodes' = nodes \ WithId(nodes, req'.node_id)

C13_OnlyTheTarget == [][C13_Step]_vars

\* C13 witness: of two records one was deleted and the other is still there.
C13_Witness ==
    /\ resp.op = "delete_node"
    /\ resp.code = 200
    /\ Cardinality(nodes) = 1
    /\ \A n \in nodes : n.id \notin deleted

\* C14: the first register call on a fingerprint after its record was
\* deleted creates a record with that call's name and exactly that call's
\* metadata, registered_at = last_seen, and nothing of the deleted record.
C14_Step ==
    (Serves("create_node")
        /\ \E t \in tomb : t.fingerprint = req'.fingerprint) =>
        /\ WithFingerprint(nodes, req'.fingerprint) = {}
        /\ Cardinality(WithFingerprint(nodes', req'.fingerprint)) = 1
        /\ \A n \in WithFingerprint(nodes', req'.fingerprint) :
              /\ n.id \notin deleted
              /\ n.name = req'.name
              /\ n.node_metadata = req'.metadata
              /\ n.registered_at = n.last_seen
              /\ n.last_seen = now
              /\ resp'.body = {FromAttributes(n)}

C14_DeleteIsFinal == [][C14_Step]_vars

\* C14 witness: "fp1" was registered, deleted and registered again under
\* another name and without metadata.
C14_Witness ==
    /\ resp.op = "create_node"
    /\ req.fingerprint = "fp1"
    /\ req.name = "n1-renamed"
    /\ deleted = {1}
    /\ tomb = {}
    /\ \E n \in nodes :
          /\ nodes = {n}
          /\ n.id = 2
          /\ n.name = "n1-renamed"
          /\ n.node_metadata = EmptyDict

\* C15: list and a successful get change no record; a list right after a
\* list returns the same records, and a get right after a list returns the
\* record the list held for that id.
C15_Step ==
    /\ (Serves("list_nodes") \/ (Serves("get_node") /\ resp'.code = 200)) =>
          nodes' = nodes
    /\ (Serves("list_nodes") /\ resp.op = "list_nodes") =>
          resp'.body = resp.body
    /\ (Serves("get_node") /\ resp'.code = 200 /\ resp.op = "list_nodes") =>
          /\ resp'.body \subseteq resp.body
          /\ resp'.body = WithId(resp.body, req'.node_id)
          /\ Cardinality(resp'.body) = 1

C15_ReadsChangeNothing == [][C15_Step]_vars

\* C15 witness: a get found one of two records.
C15_Witness ==
    /\ resp.op = "get_node"
    /\ resp.code = 200
    /\ Cardinality(nodes) = 2
    /\ \E r \in resp.body : r.id = 2
====
